---- MODULE Spec2Model ----
(***************************************************************************)
(* State-machine model of the screen capture library:                      *)
(*   - ScreenCaptureCore::ScreenCapture (CaptureToFile / InternalCapture), *)
(*     the FrameArrived handler it registers and the wait loop that        *)
(*     bridges the asynchronous frame delivery to a synchronous return;    *)
(*   - the DLL exports CaptureScreen, CaptureScreenWithOptions and         *)
(*     CaptureScreenToMemory;                                              *)
(*   - the C# wrapper ScreenCapture.Capture.                               *)
(* The caller's thread is followed by pc, the FrameArrived handler by cbpc.*)
(***************************************************************************)
EXTENDS Integers, Sequences, FiniteSets, TLC

(***************************************************************************)
(* Error codes: ScreenCaptureCore::ErrorCode and ScreenCaptureResult.      *)
(***************************************************************************)
Success == 0
InitializationFailed == 1
CaptureItemCreationFailed == 2
CaptureSessionFailed == 3
TextureProcessingFailed == 4
FileSaveFailed == 5
TimeoutError == 6
UnknownError == 99

SC_SUCCESS == 0
SC_INITIALIZATION_FAILED == 1
SC_CAPTURE_ITEM_CREATION_FAILED == 2
SC_CAPTURE_SESSION_FAILED == 3
SC_TEXTURE_PROCESSING_FAILED == 4
SC_FILE_SAVE_FAILED == 5
SC_TIMEOUT_ERROR == 6
SC_INVALID_PARAMETER == 97
SC_NOT_IMPLEMENTED == 98
SC_UNKNOWN_ERROR == 99

\* The three enumerations, as (enumerator, value) pairs under the names the
\* C# enumeration uses: ErrorCode of the core library, ScreenCaptureResult of
\* the DLL and ErrorCode of the C# wrapper.
CoreErrorCode ==
    {<<"Success", Success>>, <<"InitializationFailed", InitializationFailed>>,
     <<"CaptureItemCreationFailed", CaptureItemCreationFailed>>,
     <<"CaptureSessionFailed", CaptureSessionFailed>>,
     <<"TextureProcessingFailed", TextureProcessingFailed>>,
     <<"FileSaveFailed", FileSaveFailed>>, <<"TimeoutError", TimeoutError>>,
     <<"UnknownError", UnknownError>>}

ScreenCaptureResult ==
    {<<"Success", SC_SUCCESS>>, <<"InitializationFailed", SC_INITIALIZATION_FAILED>>,
     <<"CaptureItemCreationFailed", SC_CAPTURE_ITEM_CREATION_FAILED>>,
     <<"CaptureSessionFailed", SC_CAPTURE_SESSION_FAILED>>,
     <<"TextureProcessingFailed", SC_TEXTURE_PROCESSING_FAILED>>,
     <<"FileSaveFailed", SC_FILE_SAVE_FAILED>>, <<"TimeoutError", SC_TIMEOUT_ERROR>>,
     <<"InvalidParameter", SC_INVALID_PARAMETER>>,
     <<"NotImplemented", SC_NOT_IMPLEMENTED>>, <<"UnknownError", SC_UNKNOWN_ERROR>>}

CsErrorCode ==
    {<<"Success", 0>>, <<"InitializationFailed", 1>>,
     <<"CaptureItemCreationFailed", 2>>, <<"CaptureSessionFailed", 3>>,
     <<"TextureProcessingFailed", 4>>, <<"FileSaveFailed", 5>>,
     <<"TimeoutError", 6>>, <<"InvalidParameter", 97>>, <<"NotImplemented", 98>>,
     <<"UnknownError", 99>>}

\* The values of the enum class ScreenCaptureCore::ErrorCode.
CoreCodes ==
    {Success, InitializationFailed, CaptureItemCreationFailed, CaptureSessionFailed,
     TextureProcessingFailed, FileSaveFailed, TimeoutError, UnknownError}

\* The values of the C enum ScreenCaptureResult.
DllCodes ==
    {SC_SUCCESS, SC_INITIALIZATION_FAILED, SC_CAPTURE_ITEM_CREATION_FAILED,
     SC_CAPTURE_SESSION_FAILED, SC_TEXTURE_PROCESSING_FAILED, SC_FILE_SAVE_FAILED,
     SC_TIMEOUT_ERROR, SC_INVALID_PARAMETER, SC_NOT_IMPLEMENTED, SC_UNKNOWN_ERROR}

(***************************************************************************)
(* Program constants of the wait loop, in milliseconds.                    *)
(***************************************************************************)
TimeoutMs == 10000
SleepMs == 50

(***************************************************************************)
(* Bounds of the model.                                                    *)
(***************************************************************************)
\* FrameArrived notifications the platform raises in one invocation.
MaxFrames == 2
\* Sleeps of exactly SleepMs; a later sleep overshoots (sleep_for sleeps at least SleepMs).
MaxShortSleeps == 1
\* Largest PNG size returned by the memory capture.
MaxBuf == 2
\* Longest argument list given to the console application.
MaxArgs == 2

\* result before any layer returned; the caller's uninitialised *bufferSize.
NoResult == 0 - 1
Garbage == 0 - 1

\* The kinds of C++ exception a step can raise, by the handler that catches them.
ExcKinds == {"hresult", "std", "other"}

\* outputPath as the callers pass it: a null pointer, an empty string, a usable path.
Paths == {"null", "empty", "valid"}

Min(a, b) == IF a < b THEN a ELSE b

VARIABLES
    entry,                \* the public operation invoked ("none" before the call)
    outputPath,           \* argument: "null", "empty" or "valid"
    hideBorder,           \* argument
    hideCursor,           \* argument
    ptrArgs,              \* CaptureScreenToMemory's pointer arguments: null or valid
    pc,                   \* position of the calling thread
    result,               \* code returned by the layer that returned last
    escaped,              \* an exception left a C++ public operation
    managedException,     \* the C# wrapper threw InvalidOperationException
    constructed,          \* a ScreenCapture object was constructed by the DLL
    dllCalled,            \* the C# wrapper called into the DLL
    d3d11Device,          \* InternalCapture local: device created
    captureItem,          \* InternalCapture local: capture item created
    framePool,            \* "none", "open", "closed"
    session,              \* "none", "created", "started", "closed"
    cursorCaptureEnabled, \* session.IsCursorCaptureEnabled
    borderRequired,       \* session.IsBorderRequired
    handlerRegistered,    \* framePool.FrameArrived has the lambda
    delivery,             \* where the platform runs the handler: "caller" or "pool"
    frameReceived,        \* InternalCapture local, shared with the handler
    captureSuccess,       \* InternalCapture local, shared with the handler
    frameMutex,           \* owner of frameMutex: "free", "caller", "callback"
    elapsed,              \* steady_clock::now() - start, in ms
    pendingFrameMsgs,     \* FrameArrived notifications raised and not yet delivered
    poolFrame,            \* the single-slot frame pool holds a frame
    produced,             \* notifications raised so far
    cbpc,                 \* position of the FrameArrived handler
    framesConsumed,       \* times TryGetNextFrame returned a frame
    fileWrites,           \* times the handler started writing the output file
    file,                 \* the output file: "absent", "partial", "complete"
    firstFailure,         \* first failure that was not absorbed: [stage, kind]
    toggleFailed,         \* toggle setters that threw: subset of {"cursor", "border"}
    log,                  \* tags of the Log / LogError calls made
    outputBuffer,         \* caller's *outputBuffer: "garbage", "null", "heap"
    bufferSize,           \* caller's *bufferSize: Garbage or a size
    heapBlocks,           \* malloc'ed blocks not yet freed
    coreBytes,            \* bytes CaptureToMemory left in the DLL's local vector
    argv,                 \* console application: the arguments after the program name
    verboseMode,          \* console application: wmain's verboseMode
    usageShown,           \* console application: ShowUsage was called
    exitCode,             \* console application: value returned by wmain
    describedCode,        \* GetErrorDescription's argument
    description,          \* text returned by GetErrorDescription ("" before a call)
    coreErrorArg             \* ConvertErrorCode's argument

argVars == <<entry, outputPath, hideBorder, hideCursor, ptrArgs>>
apiVars == <<escaped, managedException, constructed, dllCalled>>
resVars == <<d3d11Device, captureItem, framePool, session, cursorCaptureEnabled,
             borderRequired, handlerRegistered, delivery>>
syncVars == <<frameReceived, captureSuccess, frameMutex>>
timeVars == <<elapsed>>
msgVars == <<pendingFrameMsgs, poolFrame, produced>>
cbVars == <<cbpc, framesConsumed, fileWrites, file>>
memVars == <<outputBuffer, bufferSize, heapBlocks, coreBytes>>
conVars == <<argv, verboseMode, usageShown, exitCode, describedCode, description,
             coreErrorArg>>
histVars == <<firstFailure, toggleFailed>>

vars == <<argVars, pc, result, apiVars, resVars, syncVars, timeVars, msgVars, cbVars,
          memVars, conVars, histVars, log>>

NoFailure == [stage |-> "none", kind |-> "none"]

Init ==
    /\ entry = "none"
    /\ outputPath = "null"
    /\ hideBorder = TRUE
    /\ hideCursor = TRUE
    /\ ptrArgs = [outputBuffer |-> "null", bufferSize |-> "null"]
    /\ pc = "idle"
    /\ result = NoResult
    /\ escaped = FALSE
    /\ managedException = FALSE
    /\ constructed = FALSE
    /\ dllCalled = FALSE
    /\ d3d11Device = FALSE
    /\ captureItem = FALSE
    /\ framePool = "none"
    /\ session = "none"
    /\ cursorCaptureEnabled = TRUE
    /\ borderRequired = TRUE
    /\ handlerRegistered = FALSE
    /\ delivery = "caller"
    /\ frameReceived = FALSE
    /\ captureSuccess = FALSE
    /\ frameMutex = "free"
    /\ elapsed = 0
    /\ pendingFrameMsgs = 0
    /\ poolFrame = FALSE
    /\ produced = 0
    /\ cbpc = "idle"
    /\ framesConsumed = 0
    /\ fileWrites = 0
    /\ file = "absent"
    /\ firstFailure = NoFailure
    /\ toggleFailed = {}
    /\ log = {}
    /\ outputBuffer = "garbage"
    /\ bufferSize = Garbage
    /\ heapBlocks = 0
    /\ coreBytes = 0
    /\ argv = << >>
    /\ verboseMode = FALSE
    /\ usageShown = FALSE
    /\ exitCode = NoResult
    /\ describedCode = NoResult
    /\ description = ""
    /\ coreErrorArg = NoResult

(***************************************************************************)
(* Layers.  The core entries are ScreenCapture::CaptureToFile (one and     *)
(* three arguments), the DLL entries CaptureScreen and                     *)
(* CaptureScreenWithOptions, the C# entries Capture (one and three         *)
(* arguments).  CaptureScreenToMemory is a DLL entry of its own.           *)
(***************************************************************************)
CoreEntries == {"CaptureToFile1", "CaptureToFile"}
DllEntries == {"CaptureScreen", "CaptureScreenWithOptions"}
CsEntries == {"Capture1", "Capture"}

\* Where control goes when the DLL export returns.
AfterDll(e) == IF e \in CsEntries THEN "CsReturn" ELSE "done"

\* Where control goes when InternalCapture returns.
AfterCore(e) ==
    CASE e \in CoreEntries -> "done"
      [] e = "wmain" -> "WmainReturn"
      [] OTHER -> "DllReturn"

\* ScreenCaptureDLL.cpp, ConvertErrorCode: core code to DLL code.
\* (Variant that passes the number through, for comparison.)
ConvertErrorCodeBroken(coreError) == coreError

ConvertErrorCode(coreError) ==
    CASE coreError = Success -> SC_SUCCESS
      [] coreError = InitializationFailed -> SC_INITIALIZATION_FAILED
      [] coreError = CaptureItemCreationFailed -> SC_CAPTURE_ITEM_CREATION_FAILED
      [] coreError = CaptureSessionFailed -> SC_CAPTURE_SESSION_FAILED
      [] coreError = TextureProcessingFailed -> SC_TEXTURE_PROCESSING_FAILED
      [] coreError = FileSaveFailed -> SC_FILE_SAVE_FAILED
      [] coreError = TimeoutError -> SC_TIMEOUT_ERROR
      [] OTHER -> SC_UNKNOWN_ERROR

\* The values passed as coreError: the enumerators and integers around them.
ConvertedCodes == ((0 - 1) .. 7) \cup (96 .. 100)

\* A call of ConvertErrorCode(code).
ConvertCode(code) ==
    /\ pc = "idle"
    /\ entry' = "ConvertErrorCode"
    /\ coreErrorArg' = code
    /\ result' = ConvertErrorCode(code)
    /\ pc' = "done"
    /\ UNCHANGED <<outputPath, hideBorder, hideCursor, ptrArgs, apiVars, resVars,
                   syncVars, timeVars, msgVars, cbVars, memVars, histVars, log, argv,
                   verboseMode, usageShown, exitCode, describedCode, description>>

\* The handlers of InternalCapture's try block: hresult_error, std::exception, (...).
\* (Variant without the catch (...) handler, for comparison.)
InternalCaptureCatchesBroken(kind) == kind \in {"hresult", "std"}

InternalCaptureCatches(kind) == kind \in {"hresult", "std", "other"}

\* The code each handler of InternalCapture returns.
InternalCaptureCatch(kind) ==
    IF kind = "hresult" THEN CaptureSessionFailed ELSE UnknownError

\* The log line each handler of InternalCapture emits.
CatchLog(kind) ==
    CASE kind = "hresult" -> "Capture error"
      [] kind = "std" -> "Standard error"
      [] OTHER -> "Unknown error occurred"

\* catch (...) of CaptureScreenWithOptions and CaptureScreenToMemory.
DllCatches(kind) == TRUE

\* First failure that is not absorbed, kept for the whole invocation.
NoteFailure(stage, kind) ==
    firstFailure' = IF firstFailure = NoFailure
                    THEN [stage |-> stage, kind |-> kind]
                    ELSE firstFailure

\* A step of InternalCapture's try block raises an exception of the given kind:
\* the matching handler logs and returns its code; an exception no handler of
\* InternalCapture matches reaches the caller (the DLL's catch (...), if any).
Raise(stage, kind, tags) ==
    /\ NoteFailure(stage, kind)
    /\ IF InternalCaptureCatches(kind)
       THEN /\ log' = log \cup tags \cup {CatchLog(kind)}
            /\ result' = InternalCaptureCatch(kind)
            /\ pc' = AfterCore(entry)
            /\ escaped' = escaped
       ELSE /\ log' = log \cup tags
            /\ IF entry = "wmain"
               THEN /\ escaped' = escaped
                    /\ result' = NoResult
                    /\ pc' = "WmainCatch"
               ELSE IF entry \in CoreEntries \/ ~DllCatches(kind)
               THEN /\ escaped' = TRUE
                    /\ result' = NoResult
                    /\ pc' = "done"
               ELSE /\ escaped' = escaped
                    /\ result' = SC_UNKNOWN_ERROR
                    /\ pc' = AfterDll(entry)

\* Outcomes of a platform call: it succeeds or raises an exception.
Outcomes == {"ok"} \cup ExcKinds

(***************************************************************************)
(* Public operations.                                                      *)
(***************************************************************************)
\* InternalCapture is entered: it validates nothing and starts with the device.
EnterInternalCapture(e, path, hb, hc) ==
    /\ pc = "idle"
    /\ entry' = e
    /\ outputPath' = path
    /\ hideBorder' = hb
    /\ hideCursor' = hc
    /\ ptrArgs' = ptrArgs
    /\ pc' = "CreateD3DDevice"
    /\ log' = log \cup {"Initializing capture system"}

\* ScreenCapture::CaptureToFile(outputPath, hideBorder, hideCursor).
CaptureToFile(path, hb, hc) ==
    /\ EnterInternalCapture("CaptureToFile", path, hb, hc)
    /\ UNCHANGED <<result, apiVars, resVars, syncVars, timeVars, msgVars, cbVars,
                   memVars, conVars, histVars>>

\* ScreenCapture::CaptureToFile(outputPath): hides border and cursor.
CaptureToFile1(path) ==
    /\ EnterInternalCapture("CaptureToFile1", path, TRUE, TRUE)
    /\ UNCHANGED <<result, apiVars, resVars, syncVars, timeVars, msgVars, cbVars,
                   memVars, conVars, histVars>>

\* The parameter check of CaptureScreenWithOptions.
\* (Variant that tests only for a null pointer, for comparison.)
DllPathInvalidBroken(path) == path = "null"

DllPathInvalid(path) == path = "null" \/ path = "empty"

\* Body of CaptureScreenWithOptions up to the call of CaptureToFile.
DllCaptureBody(e, path, hb, hc) ==
    /\ pc = "idle"
    /\ entry' = e
    /\ outputPath' = path
    /\ hideBorder' = hb
    /\ hideCursor' = hc
    /\ UNCHANGED <<ptrArgs, escaped, resVars, syncVars, timeVars, msgVars, cbVars,
                   memVars, conVars, toggleFailed>>
    /\ IF DllPathInvalid(path)
       THEN /\ result' = SC_INVALID_PARAMETER
            /\ pc' = AfterDll(e)
            /\ UNCHANGED <<constructed, firstFailure, log>>
       ELSE \E o \in {"ok", "std"} :
              IF o = "ok"
              THEN \* SilentLogger, ScreenCapture capture(&logger), CaptureToFile
                   /\ constructed' = TRUE
                   /\ pc' = "CreateD3DDevice"
                   /\ log' = log \cup {"Initializing capture system"}
                   /\ UNCHANGED <<result, firstFailure>>
              ELSE \* std::wstring(outputPath) cannot be allocated: catch (...)
                   /\ constructed' = TRUE
                   /\ NoteFailure("dll", o)
                   /\ result' = SC_UNKNOWN_ERROR
                   /\ pc' = AfterDll(e)
                   /\ log' = log

\* CaptureScreenWithOptions(outputPath, hideBorder, hideCursor).
CaptureScreenWithOptions(path, hb, hc) ==
    /\ DllCaptureBody("CaptureScreenWithOptions", path, hb, hc)
    /\ UNCHANGED <<managedException, dllCalled>>

\* CaptureScreen(outputPath): CaptureScreenWithOptions(outputPath, 1, 1).
CaptureScreen(path) ==
    /\ DllCaptureBody("CaptureScreen", path, TRUE, TRUE)
    /\ UNCHANGED <<managedException, dllCalled>>

\* string.IsNullOrEmpty(outputPath) of the C# wrapper.
IsNullOrEmpty(path) == path = "null" \/ path = "empty"

\* Body of the C# Capture(outputPath, hideBorder, hideCursor).
CsCaptureBody(e, path, hb, hc) ==
    IF IsNullOrEmpty(path)
    THEN /\ pc = "idle"
         /\ entry' = e
         /\ outputPath' = path
         /\ hideBorder' = hb
         /\ hideCursor' = hc
         /\ result' = SC_INVALID_PARAMETER
         /\ pc' = "done"
         /\ UNCHANGED <<ptrArgs, apiVars, resVars, syncVars, timeVars, msgVars, cbVars,
                        memVars, conVars, histVars, log>>
    ELSE \E found \in BOOLEAN :
           IF found
           THEN \* P/Invoke of CaptureScreenWithOptions
                /\ DllCaptureBody(e, path, hb, hc)
                /\ dllCalled' = TRUE
                /\ UNCHANGED managedException
           ELSE \* DllNotFoundException is rethrown as InvalidOperationException
                /\ pc = "idle"
                /\ entry' = e
                /\ outputPath' = path
                /\ hideBorder' = hb
                /\ hideCursor' = hc
                /\ managedException' = TRUE
                /\ pc' = "done"
                /\ UNCHANGED <<ptrArgs, result, escaped, constructed, dllCalled, resVars,
                               syncVars, timeVars, msgVars, cbVars, memVars, conVars,
                               histVars, log>>

\* C# ScreenCapture.Capture(outputPath, hideBorder, hideCursor).
Capture(path, hb, hc) == CsCaptureBody("Capture", path, hb, hc)

\* C# ScreenCapture.Capture(outputPath): Capture(outputPath, true, true).
Capture1(path) == CsCaptureBody("Capture1", path, TRUE, TRUE)

\* CaptureScreenWithOptions returns ConvertErrorCode(result).
DllReturn ==
    /\ pc = "DllReturn"
    /\ result' = ConvertErrorCode(result)
    /\ pc' = AfterDll(entry)
    /\ UNCHANGED <<argVars, apiVars, resVars, syncVars, timeVars, msgVars, cbVars,
                   memVars, conVars, histVars, log>>

\* The C# wrapper returns (ErrorCode)result.
CsReturn ==
    /\ pc = "CsReturn"
    /\ pc' = "done"
    /\ UNCHANGED <<argVars, result, apiVars, resVars, syncVars, timeVars, msgVars,
                   cbVars, memVars, conVars, histVars, log>>

(***************************************************************************)
(* InternalCapture, steps 1-7: device, capture item, frame pool, session,  *)
(* toggles, FrameArrived handler, StartCapture.                            *)
(***************************************************************************)
\* A step of the try block that succeeded and logged the given tags.
\* (Variant that passes over the registration of the handler, for comparison.)
ProceedBroken(next, tags) ==
    /\ pc' = IF next = "RegisterHandler" THEN "StartCapture" ELSE next
    /\ log' = log \cup tags
    /\ UNCHANGED <<result, escaped, firstFailure>>

Proceed(next, tags) ==
    /\ pc' = next
    /\ log' = log \cup tags
    /\ UNCHANGED <<result, escaped, firstFailure>>

\* 1. CreateD3DDevice and CreateDirect3DDeviceFromD3D11Device.
CreateD3DDevice ==
    /\ pc = "CreateD3DDevice"
    /\ \E o \in Outcomes :
         IF o = "ok"
         THEN d3d11Device' = TRUE /\ Proceed("CreateCaptureItem", {})
         ELSE d3d11Device' = d3d11Device /\ Raise("device", o, {})
    /\ UNCHANGED <<argVars, managedException, constructed, dllCalled, captureItem,
                   framePool, session, cursorCaptureEnabled, borderRequired,
                   handlerRegistered, delivery, syncVars, timeVars, msgVars, cbVars,
                   memVars, conVars, toggleFailed>>

\* 2. CreateCaptureItemForMonitor.
CreateCaptureItem ==
    /\ pc = "CreateCaptureItem"
    /\ \E o \in Outcomes :
         IF o = "ok"
         THEN captureItem' = TRUE /\ Proceed("CreateFramePool", {"Capture item created"})
         ELSE captureItem' = captureItem /\ Raise("item", o, {})
    /\ UNCHANGED <<argVars, managedException, constructed, dllCalled, d3d11Device,
                   framePool, session, cursorCaptureEnabled, borderRequired,
                   handlerRegistered, delivery, syncVars, timeVars, msgVars, cbVars,
                   memVars, conVars, toggleFailed>>

\* 3. Direct3D11CaptureFramePool::Create, one buffer.  The platform decides
\* where it will run the FrameArrived handler.
CreateFramePool ==
    /\ pc = "CreateFramePool"
    /\ \E o \in Outcomes :
         IF o = "ok"
         THEN /\ framePool' = "open"
              /\ delivery' \in {"caller", "pool"}
              /\ Proceed("CreateCaptureSession", {})
         ELSE /\ UNCHANGED <<framePool, delivery>>
              /\ Raise("pool", o, {})
    /\ UNCHANGED <<argVars, managedException, constructed, dllCalled, d3d11Device,
                   captureItem, session, cursorCaptureEnabled, borderRequired,
                   handlerRegistered, syncVars, timeVars, msgVars, cbVars, memVars, conVars,
                   toggleFailed>>

\* 4. framePool.CreateCaptureSession.
CreateCaptureSession ==
    /\ pc = "CreateCaptureSession"
    /\ \E o \in Outcomes :
         IF o = "ok"
         THEN session' = "created" /\ Proceed("CursorToggle", {})
         ELSE session' = session /\ Raise("session", o, {})
    /\ UNCHANGED <<argVars, managedException, constructed, dllCalled, d3d11Device,
                   captureItem, framePool, cursorCaptureEnabled, borderRequired,
                   handlerRegistered, delivery, syncVars, timeVars, msgVars, cbVars,
                   memVars, conVars, toggleFailed>>

\* 5a. if (hideCursor) session.IsCursorCaptureEnabled(false): no try around it.
CursorToggle ==
    /\ pc = "CursorToggle"
    /\ IF hideCursor
       THEN \E o \in Outcomes :
              IF o = "ok"
              THEN /\ cursorCaptureEnabled' = FALSE
                   /\ toggleFailed' = toggleFailed
                   /\ Proceed("BorderToggle", {"Disabling cursor in capture"})
              ELSE /\ cursorCaptureEnabled' = cursorCaptureEnabled
                   /\ toggleFailed' = toggleFailed \cup {"cursor"}
                   /\ Raise("cursorToggle", o, {"Disabling cursor in capture"})
       ELSE /\ UNCHANGED <<cursorCaptureEnabled, toggleFailed>>
            /\ Proceed("BorderToggle", {})
    /\ UNCHANGED <<argVars, managedException, constructed, dllCalled, d3d11Device,
                   captureItem, framePool, session, borderRequired, handlerRegistered,
                   delivery, syncVars, timeVars, msgVars, cbVars, memVars, conVars>>

\* 5b. if (hideBorder) try { session.IsBorderRequired(false); } catch (...) { Log }.
BorderToggle ==
    /\ pc = "BorderToggle"
    /\ IF hideBorder
       THEN \E o \in Outcomes :
              IF o = "ok"
              THEN /\ borderRequired' = FALSE
                   /\ toggleFailed' = toggleFailed
                   /\ Proceed("RegisterHandler", {"Attempting to disable border"})
              ELSE /\ borderRequired' = borderRequired
                   /\ toggleFailed' = toggleFailed \cup {"border"}
                   /\ Proceed("RegisterHandler",
                              {"Attempting to disable border",
                               "Warning: Could not disable border"})
       ELSE /\ UNCHANGED <<borderRequired, toggleFailed>>
            /\ Proceed("RegisterHandler", {})
    /\ UNCHANGED <<argVars, managedException, constructed, dllCalled, d3d11Device,
                   captureItem, framePool, session, cursorCaptureEnabled,
                   handlerRegistered, delivery, syncVars, timeVars, msgVars, cbVars,
                   memVars, conVars>>

\* 6. frameReceived = false, captureSuccess = false, framePool.FrameArrived(lambda).
RegisterHandler ==
    /\ pc = "RegisterHandler"
    /\ \E o \in Outcomes :
         IF o = "ok"
         THEN /\ handlerRegistered' = TRUE
              /\ Proceed("StartCapture", {"Setting up frame handler"})
         ELSE /\ handlerRegistered' = handlerRegistered
              /\ Raise("register", o, {"Setting up frame handler"})
    /\ UNCHANGED <<argVars, managedException, constructed, dllCalled, d3d11Device,
                   captureItem, framePool, session, cursorCaptureEnabled,
                   borderRequired, delivery, syncVars, timeVars, msgVars, cbVars,
                   memVars, conVars, toggleFailed>>

\* 7. session.StartCapture().
StartCapture ==
    /\ pc = "StartCapture"
    /\ \E o \in Outcomes :
         IF o = "ok"
         THEN /\ session' = "started"
              /\ Proceed("WaitLock", {"Starting capture session", "Waiting for frame"})
         ELSE /\ session' = session
              /\ Raise("start", o, {"Starting capture session"})
    /\ UNCHANGED <<argVars, managedException, constructed, dllCalled, d3d11Device,
                   captureItem, framePool, cursorCaptureEnabled, borderRequired,
                   handlerRegistered, delivery, syncVars, timeVars, msgVars, cbVars,
                   memVars, conVars, toggleFailed>>

(***************************************************************************)
(* InternalCapture, the wait: the flag is polled under frameMutex, and     *)
(* between two polls the thread drains its message queue and sleeps.       *)
(***************************************************************************)
\* The durations a sleep_for(50 ms) takes in the model: SleepMs, or so long
\* that the whole budget passes.
SleepDurations == {SleepMs, TimeoutMs}

\* The condition of the while loop.
\* (Variant without the time budget, for comparison.)
WaitLoopContinuesBroken == ~frameReceived

\* (Variant that looks only at the clock, for comparison.)
WaitLoopIgnoresFlag == elapsed < TimeoutMs

WaitLoopContinues == ~frameReceived /\ elapsed < TimeoutMs

\* The test after the loop: if (frameReceived) ... else timeout.
\* (Variant that lets an elapsed budget win, for comparison.)
FrameWasReceivedBroken == frameReceived /\ elapsed < TimeoutMs

FrameWasReceived == frameReceived

\* Positions of the calling thread inside the wait.
WaitPcs == {"WaitLock", "WaitCheck", "Pump", "Dispatching", "Sleep", "Relock"}

\* std::unique_lock lock(frameMutex); start = steady_clock::now().
WaitLock ==
    /\ pc = "WaitLock"
    /\ frameMutex = "free"
    /\ frameMutex' = "caller"
    /\ elapsed' = 0
    /\ pc' = "WaitCheck"
    /\ UNCHANGED <<argVars, result, apiVars, resVars, frameReceived, captureSuccess,
                   msgVars, cbVars, memVars, conVars, histVars, log>>

\* The loop condition, evaluated with the mutex held, and what follows the loop
\* when it is false: the timeout returns at once, a received frame goes on to
\* the cleanup.
WaitCheck ==
    /\ pc = "WaitCheck"
    /\ frameMutex' = "free"
    /\ IF WaitLoopContinues
       THEN /\ pc' = "Pump"
            /\ UNCHANGED <<result, firstFailure, log>>
       ELSE IF FrameWasReceived
            THEN /\ pc' = "CloseSession"
                 /\ log' = log \cup {"Frame received and processed"}
                 /\ UNCHANGED <<result, firstFailure>>
            ELSE /\ log' = log \cup {"Timeout: No frame received"}
                 /\ NoteFailure("timeout", "none")
                 /\ result' = TimeoutError
                 /\ pc' = AfterCore(entry)
    /\ UNCHANGED <<argVars, apiVars, resVars, frameReceived, captureSuccess, timeVars,
                   msgVars, cbVars, memVars, conVars, toggleFailed>>

\* PeekMessage returns FALSE: no message is left for this thread.
\* (Variant that stops pumping at once, for comparison.)
QueueDrainedBroken == TRUE

QueueDrained == ~(delivery = "caller" /\ pendingFrameMsgs > 0)

\* while (PeekMessage(...)) { TranslateMessage; DispatchMessage; }
\* A FrameArrived notification queued to this thread runs the handler inside
\* DispatchMessage; the loop ends when the queue is empty.
Pump ==
    /\ pc = "Pump"
    /\ \/ /\ delivery = "caller"
          /\ pendingFrameMsgs > 0
          /\ pendingFrameMsgs' = pendingFrameMsgs - 1
          /\ cbpc' = "TryGetNextFrame"
          /\ pc' = "Dispatching"
          /\ log' = log \cup {"FrameArrived event triggered"}
       \/ /\ QueueDrained
          /\ pc' = "Sleep"
          /\ UNCHANGED <<pendingFrameMsgs, cbpc, log>>
    /\ UNCHANGED <<argVars, result, apiVars, resVars, syncVars, timeVars, poolFrame,
                   produced, framesConsumed, fileWrites, file, memVars, conVars, histVars>>

\* std::this_thread::sleep_for(50 ms): at least SleepMs pass.
Sleep ==
    /\ pc = "Sleep"
    /\ \E d \in SleepDurations :
         /\ d = SleepMs => elapsed < MaxShortSleeps * SleepMs
         /\ elapsed' = elapsed + d
    /\ pc' = "Relock"
    /\ UNCHANGED <<argVars, result, apiVars, resVars, syncVars, msgVars, cbVars,
                   memVars, conVars, histVars, log>>

\* lock.lock().
Relock ==
    /\ pc = "Relock"
    /\ frameMutex = "free"
    /\ frameMutex' = "caller"
    /\ pc' = "WaitCheck"
    /\ UNCHANGED <<argVars, result, apiVars, resVars, frameReceived, captureSuccess,
                   timeVars, msgVars, cbVars, memVars, conVars, histVars, log>>

\* session.Close().
CloseSession ==
    /\ pc = "CloseSession"
    /\ \E o \in Outcomes :
         IF o = "ok"
         THEN session' = "closed" /\ Proceed("ClosePool", {})
         ELSE session' = session /\ Raise("close", o, {})
    /\ UNCHANGED <<argVars, managedException, constructed, dllCalled, d3d11Device,
                   captureItem, framePool, cursorCaptureEnabled, borderRequired,
                   handlerRegistered, delivery, syncVars, timeVars, msgVars, cbVars,
                   memVars, conVars, toggleFailed>>

\* framePool.Close(); return captureSuccess ? Success : FileSaveFailed.
ClosePool ==
    /\ pc = "ClosePool"
    /\ \E o \in Outcomes :
         IF o = "ok"
         THEN /\ framePool' = "closed"
              /\ log' = log \cup {"Capture completed"}
              /\ result' = IF captureSuccess THEN Success ELSE FileSaveFailed
              /\ pc' = AfterCore(entry)
              /\ UNCHANGED <<escaped, firstFailure>>
         ELSE framePool' = framePool /\ Raise("close", o, {})
    /\ UNCHANGED <<argVars, managedException, constructed, dllCalled, d3d11Device,
                   captureItem, session, cursorCaptureEnabled, borderRequired,
                   handlerRegistered, delivery, syncVars, timeVars, msgVars, cbVars,
                   memVars, conVars, toggleFailed>>

(***************************************************************************)
(* The platform: a started session raises FrameArrived again and again;    *)
(* the pool has one buffer, so a new frame needs the previous one back.    *)
(***************************************************************************)
\* Positions of the handler at which it holds the frame it retrieved.
FrameHeld ==
    cbpc \in {"Materialize", "Save", "SignalLock", "SignalSet", "Notify", "Undefined"}

FrameProduced(withFrame) ==
    /\ session = "started"
    /\ handlerRegistered
    /\ produced < MaxFrames
    /\ withFrame => ~poolFrame /\ ~FrameHeld
    /\ poolFrame' = (poolFrame \/ withFrame)
    /\ produced' = produced + 1
    /\ pendingFrameMsgs' = pendingFrameMsgs + 1
    /\ UNCHANGED <<argVars, pc, result, apiVars, resVars, syncVars, timeVars, cbVars,
                   memVars, conVars, histVars, log>>

(***************************************************************************)
(* The FrameArrived handler (the lambda of InternalCapture).               *)
(***************************************************************************)
\* The handler returns: a handler run by DispatchMessage gives the thread back
\* to the message loop.
\* (Variant in which the return ends the wait, for comparison.)
CbReturnPcBroken == IF pc = "Dispatching" THEN "CloseSession" ELSE pc

CbReturnPc == IF pc = "Dispatching" THEN "Pump" ELSE pc

\* The platform runs the handler on a thread of its own.
CbStartOnPool ==
    /\ delivery = "pool"
    /\ framePool = "open"
    /\ pendingFrameMsgs > 0
    /\ cbpc = "idle"
    /\ pendingFrameMsgs' = pendingFrameMsgs - 1
    /\ cbpc' = "TryGetNextFrame"
    /\ log' = log \cup {"FrameArrived event triggered"}
    /\ UNCHANGED <<argVars, pc, result, apiVars, resVars, syncVars, timeVars, poolFrame,
                   produced, framesConsumed, fileWrites, file, memVars, conVars, histVars>>

\* auto frame = sender.TryGetNextFrame(); if (frame) ... else LogError.
CbTryGetNextFrame ==
    /\ cbpc = "TryGetNextFrame"
    /\ IF poolFrame
       THEN /\ poolFrame' = FALSE
            /\ framesConsumed' = framesConsumed + 1
            /\ cbpc' = "Materialize"
            /\ log' = log \cup {"Frame captured! Processing"}
            /\ pc' = pc
       ELSE /\ log' = log \cup {"No frame available"}
            /\ cbpc' = "idle"
            /\ pc' = CbReturnPc
            /\ UNCHANGED <<poolFrame, framesConsumed>>
    /\ UNCHANGED <<argVars, result, apiVars, resVars, syncVars, timeVars,
                   pendingFrameMsgs, produced, fileWrites, file, memVars, conVars, histVars>>

\* Surface, IDirect3DDxgiInterfaceAccess, staging texture, CopyResource, Map,
\* memcpy, Unmap.  An hresult_error goes to the handler's catch, which logs and
\* then signals completion as the normal path does; any other exception leaves
\* the lambda.
CbMaterialize ==
    /\ cbpc = "Materialize"
    /\ \E o \in {"ok", "hresult", "std"} :
         CASE o = "ok" ->
                /\ cbpc' = "Save"
                /\ log' = log \cup {"Texture size"}
                /\ UNCHANGED <<pc, firstFailure>>
           [] o = "hresult" ->
                /\ NoteFailure("materialize", o)
                /\ cbpc' = "SignalLock"
                /\ log' = log \cup {"Error processing frame"}
                /\ pc' = pc
           [] OTHER ->
                /\ NoteFailure("materialize", o)
                /\ cbpc' = "idle"
                /\ pc' = CbReturnPc
                /\ log' = log
    /\ UNCHANGED <<argVars, result, apiVars, resVars, syncVars, timeVars, msgVars,
                   framesConsumed, fileWrites, file, memVars, conVars, toggleFailed>>

\* The inner try: create the file (replacing an existing one), encode, copy,
\* flush, close, captureSuccess = true; catch (...) logs.  An empty file name
\* cannot be created.
CbSave ==
    /\ cbpc = "Save"
    /\ \E o \in {"ok", "created", "failed"} :
         /\ o \in {"ok", "created"} => outputPath = "valid"
         /\ CASE o = "ok" ->
                   /\ file' = "complete"
                   /\ fileWrites' = fileWrites + 1
                   /\ captureSuccess' = TRUE
                   /\ log' = log \cup {"Screenshot saved successfully"}
                   /\ UNCHANGED firstFailure
              [] o = "created" ->
                   /\ file' = "partial"
                   /\ fileWrites' = fileWrites + 1
                   /\ NoteFailure("save", "any")
                   /\ log' = log \cup {"Error saving screenshot to file"}
                   /\ UNCHANGED captureSuccess
              [] OTHER ->
                   /\ NoteFailure("save", "any")
                   /\ log' = log \cup {"Error saving screenshot to file"}
                   /\ UNCHANGED <<file, fileWrites, captureSuccess>>
    /\ cbpc' = "SignalLock"
    /\ UNCHANGED <<argVars, pc, result, apiVars, resVars, frameReceived, frameMutex,
                   timeVars, msgVars, framesConsumed, memVars, conVars,
                   toggleFailed>>

\* std::lock_guard<std::mutex> lock(frameMutex).
CbSignalLock ==
    /\ cbpc = "SignalLock"
    /\ frameMutex = "free"
    /\ frameMutex' = "callback"
    /\ cbpc' = "SignalSet"
    /\ UNCHANGED <<argVars, pc, result, apiVars, resVars, frameReceived, captureSuccess,
                   timeVars, msgVars, framesConsumed, fileWrites, file,
                   memVars, conVars, histVars, log>>

\* frameReceived = true; the lock_guard releases the mutex.
CbSignalSet ==
    /\ cbpc = "SignalSet"
    /\ frameReceived' = TRUE
    /\ frameMutex' = "free"
    /\ cbpc' = "Notify"
    /\ UNCHANGED <<argVars, pc, result, apiVars, resVars, captureSuccess, timeVars,
                   msgVars, framesConsumed, fileWrites, file, memVars, conVars,
                   histVars, log>>

\* frameCondition.notify_one(); the lambda returns and the frame goes back.
CbNotify ==
    /\ cbpc = "Notify"
    /\ cbpc' = "idle"
    /\ pc' = CbReturnPc
    /\ UNCHANGED <<argVars, result, apiVars, resVars, syncVars, timeVars, msgVars,
                   framesConsumed, fileWrites, file, memVars, conVars, histVars,
                   log>>

\* InternalCapture has returned: frameReceived, captureSuccess, frameMutex,
\* frameCondition and d3d11Device, which the lambda captured by reference, no
\* longer exist.
LocalsDestroyed ==
    pc \in {"done", "DllReturn", "CsReturn", "WmainReturn", "WmainCatch"}

\* A handler execution about to use one of the destroyed locals.  The access
\* is undefined: it may behave as if the local were still there (the steps
\* above), or have any other effect, of which the model keeps the one the
\* properties can see: the handler never gets further (a lock that is never
\* granted, a fault).
CbUndefined ==
    /\ LocalsDestroyed
    /\ cbpc \in {"Materialize", "Save", "SignalLock", "SignalSet", "Notify"}
    /\ cbpc' = "Undefined"
    /\ frameMutex' = IF frameMutex = "callback" THEN "free" ELSE frameMutex
    /\ UNCHANGED <<argVars, pc, result, apiVars, resVars, frameReceived, captureSuccess,
                   timeVars, msgVars, framesConsumed, fileWrites, file, memVars,
                   conVars, histVars, log>>

(***************************************************************************)
(* CaptureScreenToMemory.  ScreenCapture::CaptureToMemory is declared in   *)
(* ScreenCaptureCore.h; its results are taken from its contract: a PNG of  *)
(* positive size with Success, nothing with any other code.                *)
(***************************************************************************)
CaptureToMemoryResults ==
    {[code |-> Success, size |-> n] : n \in 1..MaxBuf}
        \cup {[code |-> c, size |-> 0] : c \in CoreCodes \ {Success}}

\* What CaptureScreenToMemory returns when malloc fails.
\* (Variant that reports success, for comparison.)
AllocFailedResultBroken == SC_SUCCESS

AllocFailedResult == SC_UNKNOWN_ERROR

\* The parameter check of CaptureScreenToMemory.
\* (Variant that tests only outputBuffer, for comparison.)
MemoryArgsInvalidBroken(ob, bs) == ob = "null"

MemoryArgsInvalid(ob, bs) == ob = "null" \/ bs = "null"

\* CaptureScreenToMemory(outputBuffer, bufferSize, hideBorder, hideCursor);
\* ob and bs say whether each pointer is null or points at the caller's variable.
CaptureScreenToMemory(ob, bs, hb, hc) ==
    /\ pc = "idle"
    /\ entry' = "CaptureScreenToMemory"
    /\ hideBorder' = hb
    /\ hideCursor' = hc
    /\ ptrArgs' = [outputBuffer |-> ob, bufferSize |-> bs]
    /\ pc' = "done"
    /\ UNCHANGED <<outputPath, escaped, managedException, dllCalled, resVars, syncVars,
                   timeVars, msgVars, cbVars, conVars, toggleFailed, log>>
    /\ IF MemoryArgsInvalid(ob, bs)
       THEN /\ result' = SC_INVALID_PARAMETER
            /\ UNCHANGED <<constructed, memVars, firstFailure>>
       ELSE /\ constructed' = TRUE
            /\ \/ \E r \in CaptureToMemoryResults, allocated \in BOOLEAN :
                    /\ coreBytes' = r.size
                    /\ IF r.code = Success /\ r.size > 0
                       THEN /\ bufferSize' = r.size
                            /\ IF allocated
                               THEN /\ outputBuffer' = "heap"
                                    /\ heapBlocks' = heapBlocks + 1
                                    /\ result' = SC_SUCCESS
                                    /\ UNCHANGED firstFailure
                               ELSE /\ outputBuffer' = "null"
                                    /\ heapBlocks' = heapBlocks
                                    /\ result' = AllocFailedResult
                                    /\ NoteFailure("malloc", "none")
                       ELSE /\ outputBuffer' = "null"
                            /\ bufferSize' = 0
                            /\ heapBlocks' = heapBlocks
                            /\ result' = ConvertErrorCode(r.code)
                            /\ NoteFailure("memory", "none")
               \/ \E k \in ExcKinds :
                    /\ NoteFailure("memory", k)
                    /\ heapBlocks' = heapBlocks
                    /\ coreBytes' = coreBytes
                    /\ IF DllCatches(k)
                       THEN /\ outputBuffer' = "null"
                            /\ bufferSize' = 0
                            /\ result' = SC_UNKNOWN_ERROR
                       ELSE /\ UNCHANGED <<outputBuffer, bufferSize>>
                            /\ result' = NoResult

(***************************************************************************)
(* GetErrorDescription.                                                    *)
(***************************************************************************)
\* The switch of GetErrorDescription.
\* (Variant without the default label, for comparison.)
GetErrorDescriptionBroken(code) ==
    CASE code = SC_SUCCESS -> "Operation completed successfully"
      [] code = SC_UNKNOWN_ERROR -> "Unknown error occurred"
      [] OTHER -> ""

GetErrorDescription(code) ==
    CASE code = SC_SUCCESS -> "Operation completed successfully"
      [] code = SC_INITIALIZATION_FAILED -> "Failed to initialize capture system"
      [] code = SC_CAPTURE_ITEM_CREATION_FAILED ->
             "Failed to create capture item for monitor"
      [] code = SC_CAPTURE_SESSION_FAILED -> "Failed to start capture session"
      [] code = SC_TEXTURE_PROCESSING_FAILED -> "Failed to process captured texture"
      [] code = SC_FILE_SAVE_FAILED -> "Failed to save screenshot to file"
      [] code = SC_TIMEOUT_ERROR -> "Timeout waiting for frame capture"
      [] code = SC_INVALID_PARAMETER -> "Invalid parameter provided"
      [] code = SC_NOT_IMPLEMENTED -> "Feature not yet implemented"
      [] OTHER -> "Unknown error occurred"

\* The values passed as errorCode: the enumerators and integers around them.
DescribedCodes == ((0 - 1) .. 7) \cup (96 .. 100)

\* A call of the export GetErrorDescription(code).
DescribeError(code) ==
    /\ pc = "idle"
    /\ entry' = "GetErrorDescription"
    /\ describedCode' = code
    /\ description' = GetErrorDescription(code)
    /\ pc' = "done"
    /\ UNCHANGED <<outputPath, hideBorder, hideCursor, ptrArgs, result, apiVars,
                   resVars, syncVars, timeVars, msgVars, cbVars, memVars, histVars,
                   log, argv, verboseMode, usageShown, exitCode, coreErrorArg>>

(***************************************************************************)
(* The console application (main.cpp of the console target): wmain and     *)
(* ParseCommandLine.  argv holds the arguments after the program name.     *)
(***************************************************************************)
HelpTokens == {"--help", "-h", "/?"}
VerboseTokens == {"--verbose", "-v"}

\* The arguments tried: the options, a file name and the empty string.
Tokens == {"--help", "--verbose", "--show-border", "--show-cursor", "out.png", ""}

\* All argument lists of at most n arguments.
ArgLists(n) == UNION {[1..k -> Tokens] : k \in 0..n}

\* The branches of the parsing loop that do not end it.
IsOption(t) == t \in VerboseTokens \cup {"--show-border", "--show-cursor"}

\* Index at which the parsing loop breaks (0: it ran off the end).
OutputIndex(args) ==
    LET stops == {i \in 1..Len(args) : ~IsOption(args[i])}
    IN  IF stops = {} THEN 0 ELSE CHOOSE i \in stops : \A j \in stops : i <= j

\* The arguments the loop looked at before it ended.
\* (Variant of a loop without the break, for comparison.)
VisitedBroken(args) == {args[i] : i \in 1..Len(args)}

Visited(args) ==
    {args[i] : i \in 1..(IF OutputIndex(args) = 0 THEN Len(args)
                         ELSE OutputIndex(args) - 1)}

ParsedVerbose(args) == Visited(args) \cap VerboseTokens # {}

\* (Variant in which either option shows the border, for comparison.)
ParsedHideBorderBroken(args) ==
    Visited(args) \cap {"--show-border", "--show-cursor"} = {}

ParsedHideBorder(args) == "--show-border" \notin Visited(args)

ParsedHideCursor(args) == "--show-cursor" \notin Visited(args)

ParsedPath(args) == IF OutputIndex(args) = 0 THEN "" ELSE args[OutputIndex(args)]

\* outputPath as the capture layers see it.
PathOf(t) == IF t = "" THEN "empty" ELSE "valid"

\* wmain is entered: its locals are initialised.
Wmain(args) ==
    /\ pc = "idle"
    /\ entry' = "wmain"
    /\ argv' = args
    /\ verboseMode' = FALSE
    /\ hideBorder' = TRUE
    /\ hideCursor' = TRUE
    /\ outputPath' = "empty"
    /\ pc' = "ParseCommandLine"
    /\ UNCHANGED <<ptrArgs, result, apiVars, resVars, syncVars, timeVars, msgVars,
                   cbVars, memVars, histVars, log, usageShown, exitCode,
                   describedCode, description, coreErrorArg>>

\* Exit code of wmain when ParseCommandLine returned false.
\* (Variant with the code the README lists, for comparison.)
ParseFailureExitReadme(args) ==
    IF Len(args) >= 1 /\ args[1] \in HelpTokens THEN 0 ELSE SC_INVALID_PARAMETER

ParseFailureExit(args) ==
    IF Len(args) >= 1 /\ args[1] \in HelpTokens THEN 0 ELSE 1

\* ParseCommandLine and, when it returns false, the return of wmain.
ParseCommandLine ==
    /\ pc = "ParseCommandLine"
    /\ IF Len(argv) = 0
       THEN \* argc < 2
            /\ exitCode' = ParseFailureExit(argv)
            /\ pc' = "done"
            /\ UNCHANGED <<verboseMode, hideBorder, hideCursor, outputPath, usageShown>>
       ELSE IF argv[1] \in HelpTokens
       THEN /\ usageShown' = TRUE
            /\ exitCode' = ParseFailureExit(argv)
            /\ pc' = "done"
            /\ UNCHANGED <<verboseMode, hideBorder, hideCursor, outputPath>>
       ELSE /\ verboseMode' = ParsedVerbose(argv)
            /\ hideBorder' = ParsedHideBorder(argv)
            /\ hideCursor' = ParsedHideCursor(argv)
            /\ outputPath' = PathOf(ParsedPath(argv))
            /\ usageShown' = usageShown
            /\ IF ParsedPath(argv) = ""
               THEN /\ exitCode' = ParseFailureExit(argv)
                    /\ pc' = "done"
               ELSE \E validated \in BOOLEAN :
                      \* std::filesystem: extension, parent directory
                      IF validated
                      THEN /\ exitCode' = exitCode
                           /\ pc' = "WmainCapture"
                      ELSE /\ exitCode' = ParseFailureExit(argv)
                           /\ pc' = "done"
    /\ UNCHANGED <<entry, argv, ptrArgs, result, apiVars, resVars, syncVars, timeVars,
                   msgVars, cbVars, memVars, histVars, log, describedCode,
                   description, coreErrorArg>>

\* SetupConsole, the logger, ScreenCapture capture(logger.get()) and the call
\* of CaptureToFile(outputPath, hideBorder, hideCursor).  argv is not read again.
WmainCapture ==
    /\ pc = "WmainCapture"
    /\ argv' = << >>
    /\ \E o \in {"ok", "std"} :
         IF o = "ok"
         THEN /\ pc' = "CreateD3DDevice"
              /\ log' = log \cup {"Initializing capture system"}
              /\ UNCHANGED firstFailure
         ELSE /\ NoteFailure("wmain", o)
              /\ pc' = "WmainCatch"
              /\ log' = log
    /\ UNCHANGED <<entry, outputPath, hideBorder, hideCursor, ptrArgs, result, apiVars,
                   resVars, syncVars, timeVars, msgVars, cbVars, memVars,
                   toggleFailed, verboseMode, usageShown, exitCode, describedCode,
                   description, coreErrorArg>>

\* The exit code for the result of CaptureToFile.
\* (Variant that reports every failure as 1, for comparison.)
WmainExitCodeBroken(r) == IF r = Success THEN 0 ELSE 1

WmainExitCode(r) == IF r = Success THEN 0 ELSE r

\* wmain returns after CaptureToFile returned.
WmainReturn ==
    /\ pc = "WmainReturn"
    /\ exitCode' = WmainExitCode(result)
    /\ pc' = "done"
    /\ UNCHANGED <<argVars, result, apiVars, resVars, syncVars, timeVars, msgVars,
                   cbVars, memVars, histVars, log, argv, verboseMode, usageShown,
                   describedCode, description, coreErrorArg>>

\* catch (...) of wmain.
WmainCatch ==
    /\ pc = "WmainCatch"
    /\ exitCode' = SC_UNKNOWN_ERROR
    /\ pc' = "done"
    /\ UNCHANGED <<argVars, result, apiVars, resVars, syncVars, timeVars, msgVars,
                   cbVars, memVars, histVars, log, argv, verboseMode, usageShown,
                   describedCode, description, coreErrorArg>>

(***************************************************************************)
(* Output.  ScreenCapture::Log and LogError hand the message to m_logger;  *)
(* SilentLogger's methods are empty, ConsoleLogger's write to the console. *)
(***************************************************************************)
\* The logger the layer in use gives to the ScreenCapture object.
LoggerInUse ==
    IF entry = "wmain" /\ verboseMode THEN "ConsoleLogger" ELSE "SilentLogger"

\* What a logger writes of the messages it is handed.
\* (Variant in which SilentLogger writes as well, for comparison.)
LoggedBroken(logger, messages) == messages

Logged(logger, messages) == IF logger = "ConsoleLogger" THEN messages ELSE {}

\* What wmain and ParseCommandLine write themselves: the usage text, and
\* their error lines under if (verboseMode).
WmainOutput ==
    (IF usageShown THEN {"Usage"} ELSE {})
        \cup (IF entry = "wmain" /\ verboseMode /\ pc = "done"
              THEN (IF result = NoResult /\ exitCode = SC_UNKNOWN_ERROR
                    THEN {"Fatal error occurred"} ELSE {})
                   \cup (IF result \notin {NoResult, Success}
                         THEN {"Capture failed with error code"} ELSE {})
              ELSE {})

\* Everything the process wrote to its console.
ConsoleOutput == Logged(LoggerInUse, log) \cup WmainOutput

(***************************************************************************)
(* The standalone demo (main.cpp), CaptureScreenAsync: the same wait loop, *)
(* followed by the cleanup.                                                *)
(***************************************************************************)
\* The session lifecycle operations CaptureScreenAsync issues after the wait
\* loop: the if / else on frameReceived only prints, and both branches fall
\* through to session.Close() and framePool.Close().
CaptureScreenAsyncCleanup(received) ==
    IF received
    THEN <<"session.Close", "framePool.Close">>
    ELSE <<"session.Close", "framePool.Close">>

\* The state of session and frame pool after the given operations were issued
\* on a started session.
AfterLifecycle(ops) ==
    [session |-> IF \E i \in DOMAIN ops : ops[i] = "session.Close"
                 THEN "closed" ELSE "started",
     framePool |-> IF \E i \in DOMAIN ops : ops[i] = "framePool.Close"
                   THEN "closed" ELSE "open"]

(***************************************************************************)
(* The specification.                                                      *)
(***************************************************************************)
\* The paths a std::wstring can hold.
CorePaths == {"empty", "valid"}

\* A pointer argument: null, or the address of a variable of the caller.
Pointers == {"null", "valid"}

\* Everything that happens between a CaptureToFile call and its return: the
\* steps of InternalCapture, the platform raising FrameArrived, the handler.
InternalCaptureStep ==
    \/ CreateD3DDevice
    \/ CreateCaptureItem
    \/ CreateFramePool
    \/ CreateCaptureSession
    \/ CursorToggle
    \/ BorderToggle
    \/ RegisterHandler
    \/ StartCapture
    \/ WaitLock
    \/ WaitCheck
    \/ Pump
    \/ Sleep
    \/ Relock
    \/ CloseSession
    \/ ClosePool
    \/ \E withFrame \in BOOLEAN : FrameProduced(withFrame)
    \/ CbStartOnPool
    \/ CbTryGetNextFrame
    \/ CbMaterialize
    \/ CbSave
    \/ CbSignalLock
    \/ CbSignalSet
    \/ CbNotify
    \/ CbUndefined

\* The core class used directly.
CoreNext ==
    \/ \E path \in CorePaths, hb \in BOOLEAN, hc \in BOOLEAN : CaptureToFile(path, hb, hc)
    \/ \E path \in CorePaths : CaptureToFile1(path)
    \/ InternalCaptureStep

\* The core class, the DLL exports over it, the C# wrapper over those, and the
\* console application over the core class.
Next ==
    \/ CoreNext
    \/ \E path \in Paths, hb \in BOOLEAN, hc \in BOOLEAN :
         CaptureScreenWithOptions(path, hb, hc)
    \/ \E path \in Paths : CaptureScreen(path)
    \/ \E ob \in Pointers, bs \in Pointers, hb \in BOOLEAN, hc \in BOOLEAN :
         CaptureScreenToMemory(ob, bs, hb, hc)
    \/ \E path \in Paths, hb \in BOOLEAN, hc \in BOOLEAN : Capture(path, hb, hc)
    \/ \E path \in Paths : Capture1(path)
    \/ DllReturn
    \/ CsReturn
    \/ pc = "idle" /\ \E code \in DescribedCodes : DescribeError(code)
    \/ pc = "idle" /\ \E code \in ConvertedCodes : ConvertCode(code)
    \/ pc = "idle" /\ \E args \in ArgLists(MaxArgs) : Wmain(args)
    \/ ParseCommandLine
    \/ WmainCapture
    \/ WmainReturn
    \/ WmainCatch

Spec == Init /\ [][Next]_vars

\* Thread progress: the calling thread runs InternalCapture to its return
\* unless it is blocked on frameMutex or inside DispatchMessage, and a started
\* FrameArrived handler runs to its end.
CallerStep ==
    \/ CreateD3DDevice \/ CreateCaptureItem \/ CreateFramePool
    \/ CreateCaptureSession \/ CursorToggle \/ BorderToggle
    \/ RegisterHandler \/ StartCapture
    \/ WaitLock \/ WaitCheck \/ Pump \/ Sleep \/ Relock
    \/ CloseSession \/ ClosePool

CallbackStep ==
    \/ CbStartOnPool \/ CbTryGetNextFrame \/ CbMaterialize \/ CbSave
    \/ CbSignalLock \/ CbSignalSet \/ CbNotify \/ CbUndefined

\* The core class alone, with both threads making progress.
FairSpec ==
    Init /\ [][CoreNext]_vars /\ WF_vars(CallerStep) /\ WF_vars(CallbackStep)

\* --------------------------------------------------------------------------
\* Properties
\* --------------------------------------------------------------------------

\* InternalCapture has returned to its caller (a core entry point, or the DLL
\* export that still has to convert the code).
\* Positions of the calling thread after InternalCapture.
AfterCapturePcs == {"done", "DllReturn", "CsReturn", "WmainReturn", "WmainCatch"}

InternalCaptureReturned ==
    /\ "Initializing capture system" \in log
    /\ pc \in {"done", "DllReturn", "CsReturn", "WmainReturn"}
    /\ ~escaped

ResourcesCreated == framePool # "none" /\ session # "none"

\* C1: on every exit path of an invocation in which the frame pool and the
\* capture session were created (normal completion, timeout, exception after
\* creation), both have been closed by the time InternalCapture returns.
C1_ClosedOnEveryExit ==
    (InternalCaptureReturned /\ ResourcesCreated)
        => (session = "closed" /\ framePool = "closed")

StageCode(f) ==
    CASE f.stage = "timeout" -> TimeoutError
      [] f.stage = "save" -> FileSaveFailed
      [] f.stage = "materialize" -> TextureProcessingFailed
      [] f.kind # "hresult" -> UnknownError
      [] f.stage = "device" -> InitializationFailed
      [] f.stage = "item" -> CaptureItemCreationFailed
      [] OTHER -> CaptureSessionFailed

\* C3: the terminal result of InternalCapture is Success exactly when a frame
\* was received and saving succeeded, FileSaveFailed exactly when a frame was
\* received but saving failed, and otherwise the code of the first failure.
C3_TerminalResult ==
    InternalCaptureReturned =>
        /\ result = (IF firstFailure = NoFailure THEN Success
                     ELSE StageCode(firstFailure))
        /\ result = Success => (frameReceived /\ captureSuccess)
        /\ result = FileSaveFailed => (frameReceived /\ ~captureSuccess)

\* C4: CaptureToFile with an empty output path returns InvalidParameter (97)
\* at once: no device, capture item, frame pool or session is created and no
\* log line of a later stage is emitted.
C4_EmptyPathRejected ==
    (entry \in CoreEntries /\ outputPath = "empty") =>
        /\ pc = "done"
        /\ result = SC_INVALID_PARAMETER
        /\ ~d3d11Device /\ ~captureItem
        /\ framePool = "none" /\ session = "none"
        /\ log = {}

\* C5: the DLL exports check their pointer arguments first. CaptureScreen and
\* CaptureScreenWithOptions with a null or empty outputPath, and
\* CaptureScreenToMemory with a null outputBuffer or bufferSize, return
\* SC_INVALID_PARAMETER with no ScreenCapture constructed, no capture resource
\* acquired and nothing written through an output pointer; the C# Capture
\* returns InvalidParameter for a null or empty path without calling the DLL.
C5_ArgumentsValidatedFirst ==
    LET untouched ==
            /\ pc = "done"
            /\ result = SC_INVALID_PARAMETER
            /\ ~constructed
            /\ ~d3d11Device /\ ~captureItem
            /\ framePool = "none" /\ session = "none"
            /\ outputBuffer = "garbage" /\ bufferSize = Garbage
            /\ heapBlocks = 0
            /\ log = {}
    IN  /\ (entry \in DllEntries /\ outputPath \in {"null", "empty"}) => untouched
        /\ (entry = "CaptureScreenToMemory"
              /\ (ptrArgs.outputBuffer = "null" \/ ptrArgs.bufferSize = "null"))
             => untouched
        /\ (entry \in CsEntries /\ outputPath \in {"null", "empty"})
             => (untouched /\ ~dllCalled /\ ~managedException)

\* CaptureScreen was called with an empty path and has returned 97.
C5_Witness ==
    /\ entry = "CaptureScreen"
    /\ outputPath = "empty"
    /\ pc = "done"
    /\ result = SC_INVALID_PARAMETER

\* C6: for every combination of hideBorder and hideCursor, a failing toggle
\* setter (cursor or border) is absorbed: it is never the failure that ends
\* the capture, so the result is that of the run in which it did not fail.
C6_ToggleFailureAbsorbed ==
    /\ "cursor" \in toggleFailed => firstFailure.stage # "cursorToggle"
    /\ "border" \in toggleFailed => firstFailure.stage # "borderToggle"

\* C7: a setup failure reported by the platform carries the code of its
\* stage: device creation InitializationFailed, capture item creation
\* CaptureItemCreationFailed, frame pool/session construction, handler
\* registration and session start CaptureSessionFailed.
C7_SetupStageCodes ==
    (InternalCaptureReturned /\ firstFailure.kind = "hresult") =>
        /\ firstFailure.stage = "device" => result = InitializationFailed
        /\ firstFailure.stage = "item" => result = CaptureItemCreationFailed
        /\ firstFailure.stage \in {"pool", "session", "register", "start"}
             => result = CaptureSessionFailed

\* C8: when a frame was delivered and materializing it failed, the capture
\* call returns TextureProcessingFailed.
C8_MaterializeFailureCode ==
    (InternalCaptureReturned /\ firstFailure.stage = "materialize")
        => result = TextureProcessingFailed

C10_OneFramePerInvocation ==
    (pc \notin {"idle"} \cup AfterCapturePcs)
        => (framesConsumed <= 1 /\ fileWrites <= 1)

\* C11: every read and every write of frameReceived and captureSuccess, by
\* the handler or by the waiting caller, is made with frameMutex held: the
\* handler holds it where it writes captureSuccess (the end of the save) and
\* frameReceived, the caller where it reads frameReceived (the loop
\* condition) and captureSuccess (the return statement).
C11_SharedAccessUnderMutex ==
    /\ cbpc \in {"Save", "SignalSet"} => frameMutex = "callback"
    /\ pc \in {"WaitCheck", "ClosePool"} => frameMutex = "caller"

\* C12: between two consecutive checks of frameReceived the waiting thread
\* releases frameMutex, drains the pending messages, sleeps 50 ms and locks
\* the mutex again, in that order; it never holds the mutex while messages are
\* dispatched or while it sleeps.
C12_WaitIteration ==
    /\ [](pc \in {"Pump", "Dispatching", "Sleep", "Relock"} => frameMutex # "caller")
    /\ [](pc = "WaitCheck" => frameMutex = "caller")
    /\ [][(pc \in WaitPcs /\ pc' \in WaitPcs /\ pc' # pc) =>
             \/ pc = "WaitLock" /\ pc' = "WaitCheck"
             \/ pc = "WaitCheck" /\ pc' = "Pump"
             \/ pc = "Pump" /\ pc' = "Dispatching"
             \/ pc = "Dispatching" /\ pc' = "Pump"
             \/ pc = "Pump" /\ pc' = "Sleep"
                  /\ ~(delivery = "caller" /\ pendingFrameMsgs > 0)
             \/ pc = "Sleep" /\ pc' = "Relock" /\ elapsed' >= elapsed + SleepMs
             \/ pc = "Relock" /\ pc' = "WaitCheck"]_vars

\* The waiter is asleep, mutex released, after a pump that ran the handler.
C12_Witness ==
    /\ pc = "Sleep"
    /\ delivery = "caller"
    /\ framesConsumed = 1
    /\ frameMutex = "free"

\* C13: the waiter does not need the notification: once the handler has set
\* frameReceived, the next evaluation of the loop condition ends the wait and
\* the caller goes on to the cleanup, with no timeout, whether or not
\* notify_one has been called.
C13_FlagEndsWait ==
    /\ [][(pc = "WaitCheck" /\ pc' # pc /\ frameReceived)
            => (pc' = "CloseSession" /\ result' = result
                  /\ firstFailure' = firstFailure)]_vars
    /\ (pc \in WaitPcs /\ frameReceived) ~> (pc = "CloseSession")

\* The waiter has left the loop while the handler, on its own thread, has set
\* the flag and not yet called notify_one.
C13_Witness ==
    /\ pc = "CloseSession"
    /\ frameReceived
    /\ cbpc = "Notify"
    /\ delivery = "pool"
    /\ firstFailure = NoFailure

\* C14: whenever a file capture returns Success, a complete write of the PNG
\* to the output path by this invocation ended before the return: the file
\* exists, complete, at the return.
C14_SuccessMeansFileWritten ==
    [][(pc = "ClosePool" /\ pc' # pc /\ result' = Success)
         => (outputPath = "valid" /\ file' = "complete" /\ fileWrites' >= 1
               /\ cbpc' # "Save")]_vars

C16_SameEnumerations ==
    LET wire == {<<"Success", 0>>, <<"InitializationFailed", 1>>,
                 <<"CaptureItemCreationFailed", 2>>, <<"CaptureSessionFailed", 3>>,
                 <<"TextureProcessingFailed", 4>>, <<"FileSaveFailed", 5>>,
                 <<"TimeoutError", 6>>, <<"InvalidParameter", 97>>,
                 <<"NotImplemented", 98>>, <<"UnknownError", 99>>}
    IN  /\ CoreErrorCode = wire
        /\ ScreenCaptureResult = wire
        /\ CsErrorCode = wire
        /\ result # NoResult => \E e \in wire : e[2] = result

\* C17: GetErrorDescription is total and has no side effect: for every
\* integer, an enumerator or not, it returns a non-empty text, the default
\* text "Unknown error occurred" for every integer that is no enumerator, and
\* it changes nothing else.
C17_DescriptionTotal ==
    (entry = "GetErrorDescription" /\ pc = "done") =>
        /\ description # ""
        /\ describedCode \notin {0, 1, 2, 3, 4, 5, 6, 97, 98, 99}
             => description = "Unknown error occurred"
        /\ result = NoResult /\ exitCode = NoResult
        /\ ~constructed /\ ~d3d11Device /\ ~captureItem
        /\ framePool = "none" /\ session = "none"
        /\ file = "absent" /\ log = {}
        /\ outputBuffer = "garbage" /\ bufferSize = Garbage /\ heapBlocks = 0

\* GetErrorDescription was called with 7, which is no enumerator.
C17_Witness ==
    /\ entry = "GetErrorDescription"
    /\ pc = "done"
    /\ describedCode = 7
    /\ description = "Unknown error occurred"

\* C18: whenever the console application invokes the capture, its exit code
\* is the numeric value of the ErrorCode the capture returned (0 for
\* Success), and 99 when an exception reaches wmain's handler.
C18_ExitCodeIsResult ==
    (entry = "wmain" /\ pc = "done") =>
        /\ "Initializing capture system" \in log
             => (result \in {0, 1, 2, 3, 4, 5, 6, 99} /\ exitCode = result)
        /\ firstFailure.stage = "wmain" => exitCode = 99

\* The console application exited with 6 after a capture that timed out.
C18_Witness ==
    /\ entry = "wmain"
    /\ pc = "done"
    /\ result = TimeoutError
    /\ exitCode = 6

\* C19: given invalid parameters (no arguments, or only options and no
\* output path), the console application exits with code 97 and performs no
\* capture.
C19_InvalidArgumentsExit97 ==
    (entry = "wmain" /\ pc = "done" /\ outputPath = "empty"
       /\ \A i \in DOMAIN argv :
            argv[i] \in {"--verbose", "-v", "--show-border", "--show-cursor"})
        => /\ exitCode = 97
           /\ "Initializing capture system" \notin log
           /\ ~d3d11Device /\ session = "none" /\ file = "absent"

\* C20: border and cursor are hidden by default at every layer: the
\* one-argument CaptureToFile, CaptureScreen, the one-argument C# Capture and
\* the console application given no --show-border / --show-cursor request
\* hideBorder = hideCursor = true; before the output path, --show-border
\* clears only hideBorder and --show-cursor clears only hideCursor.
C20_HiddenByDefault ==
    /\ entry \in {"CaptureToFile1", "CaptureScreen", "Capture1"}
         => (hideBorder /\ hideCursor)
    /\ (entry = "wmain" /\ pc = "WmainCapture"
          /\ \A i \in 1..(Len(argv) - 1) :
               argv[i] \in {"--verbose", "-v", "--show-border", "--show-cursor"})
         => LET options == {argv[i] : i \in 1..(Len(argv) - 1)}
            IN  /\ hideBorder = ("--show-border" \notin options)
                /\ hideCursor = ("--show-cursor" \notin options)

\* The console application parsed --show-border out.png.
C20_Witness ==
    /\ entry = "wmain"
    /\ pc = "WmainCapture"
    /\ argv = <<"--show-border", "out.png">>
    /\ ~hideBorder
    /\ hideCursor

\* C21: whenever --help is among the options of the console application, it
\* shows the usage text and exits with code 0; it performs no capture and
\* writes no output file.
C21_HelpShowsUsageOnly ==
    (entry = "wmain" /\ \E i \in DOMAIN argv : argv[i] \in {"--help", "-h", "/?"})
        => /\ pc \in {"ParseCommandLine", "done"}
           /\ pc = "done" => (usageShown /\ exitCode = 0)
           /\ "Initializing capture system" \notin log
           /\ file = "absent"

\* C22: in silent (non-verbose) mode a failed capture of the console
\* application writes nothing, at any stage, to the log or to the console; the
\* failure shows only as a nonzero exit code.
C22_SilentFailure ==
    (entry = "wmain" /\ ~verboseMode
       /\ ("Initializing capture system" \in log \/ firstFailure.stage = "wmain"))
        => /\ ConsoleOutput = {}
           /\ (pc = "done" /\ result # Success) => exitCode \in 1..255

\* A silent capture failed while saving and exited with FileSaveFailed.
C22_Witness ==
    /\ entry = "wmain"
    /\ ~verboseMode
    /\ pc = "done"
    /\ "Error saving screenshot to file" \in log
    /\ result = FileSaveFailed
    /\ exitCode = 5
    /\ ConsoleOutput = {}

\* The steps of InternalCapture up to the wait, in the order of the source
\* text, and the place of a position of the calling thread in it (0: not a
\* setup step).
SetupOrder ==
    <<"CreateD3DDevice", "CreateCaptureItem", "CreateFramePool",
      "CreateCaptureSession", "CursorToggle", "BorderToggle", "RegisterHandler",
      "StartCapture", "WaitLock">>

SetupRank(p) ==
    IF \E i \in DOMAIN SetupOrder : SetupOrder[i] = p
    THEN CHOOSE i \in DOMAIN SetupOrder : SetupOrder[i] = p
    ELSE 0

\* C23: within one InternalCapture invocation the setup operations happen in
\* the fixed order device, capture item, frame pool, session, toggles,
\* FrameArrived handler, StartCapture; none is repeated; the handler is
\* registered before StartCapture; and StartCapture is invoked only after every
\* earlier step succeeded (a refused border toggle is absorbed by its step).
C23_SetupOrder ==
    /\ [][(pc' # pc /\ SetupRank(pc') > 0)
            => /\ SetupRank(pc') = SetupRank(pc) + 1
               /\ SetupRank(pc) = 0 => session = "none"]_vars
    /\ [](pc = "CreateCaptureItem" => d3d11Device)
    /\ [](pc = "CreateFramePool" => captureItem)
    /\ [](pc = "CreateCaptureSession" => framePool = "open")
    /\ [](pc = "CursorToggle" => session = "created")
    /\ [](pc = "RegisterHandler"
            => /\ hideCursor => ~cursorCaptureEnabled
               /\ (hideBorder /\ "border" \notin toggleFailed) => ~borderRequired)
    /\ []((pc = "StartCapture" \/ session = "started")
            => /\ d3d11Device /\ captureItem /\ framePool # "none"
               /\ handlerRegistered
               /\ "cursor" \notin toggleFailed)
    /\ [][(session # "started" /\ session' = "started")
            => (pc = "StartCapture" /\ handlerRegistered /\ firstFailure = NoFailure)]_vars

\* StartCapture has been invoked after all six earlier steps, with both
\* toggles applied.
C23_Witness ==
    /\ pc = "WaitLock"
    /\ session = "started"
    /\ handlerRegistered
    /\ hideBorder /\ hideCursor
    /\ ~borderRequired /\ ~cursorCaptureEnabled

\* C24: on every return of CaptureScreenToMemory other than SC_SUCCESS with
\* valid output pointers (core failure, empty result, allocation failure,
\* exception), *outputBuffer is null, *bufferSize is 0 and no heap block
\* allocated by the call is outstanding; the caller owns a heap buffer only
\* after SC_SUCCESS.
C24_FailureLeavesNothing ==
    (entry = "CaptureScreenToMemory" /\ pc = "done"
       /\ ptrArgs = [outputBuffer |-> "valid", bufferSize |-> "valid"])
        => /\ result # SC_SUCCESS
             => (outputBuffer = "null" /\ bufferSize = 0 /\ heapBlocks = 0)
           /\ outputBuffer = "heap" => result = SC_SUCCESS

\* C25: ConvertErrorCode keeps the numeric value of every code of the core
\* ErrorCode enumeration, maps every other value to SC_UNKNOWN_ERROR (99), and
\* never yields SC_INVALID_PARAMETER or SC_NOT_IMPLEMENTED.
C25_ConversionKeepsValue ==
    /\ (entry = "ConvertErrorCode" /\ pc = "done")
         => /\ coreErrorArg \in {0, 1, 2, 3, 4, 5, 6, 99} => result = coreErrorArg
            /\ coreErrorArg \notin {0, 1, 2, 3, 4, 5, 6, 99} => result = 99
            /\ result \notin {97, 98}
    /\ (entry \in {"CaptureScreen", "CaptureScreenWithOptions"} /\ pc = "done"
          /\ "Initializing capture system" \in log)
         => result \in {0, 1, 2, 3, 4, 5, 6, 99}

\* ConvertErrorCode was given 97, which the core enumeration does not define.
C25_Witness ==
    /\ entry = "ConvertErrorCode"
    /\ pc = "done"
    /\ coreErrorArg = 97
    /\ result = 99

\* C26: every execution of the FrameArrived handler that obtained a frame from
\* TryGetNextFrame sets frameReceived before it returns, whatever fails while
\* the frame is materialized or saved.
C26_FrameAlwaysSignalled ==
    [][(cbpc \in {"Materialize", "Save", "SignalLock", "SignalSet", "Notify"}
          /\ cbpc' = "idle")
        => frameReceived']_vars

\* C27: a handler execution in which TryGetNextFrame yields no frame leaves
\* frameReceived and captureSuccess unchanged and writes no file, and the
\* caller keeps waiting (for a later notification or for the timeout).
C27_EmptyNotificationIgnored ==
    [][(cbpc = "TryGetNextFrame" /\ cbpc' = "idle")
        => /\ frameReceived' = frameReceived
           /\ captureSuccess' = captureSuccess
           /\ file' = file /\ fileWrites' = fileWrites
           /\ framesConsumed' = framesConsumed
           /\ result' = result
           /\ pc = "Dispatching" => pc' = "Pump"
           /\ pc # "Dispatching" => pc' = pc]_vars

\* The message loop dispatched a notification for which the pool had no frame;
\* the caller is back in its loop with the flag unset.
C27_Witness ==
    /\ pc = "Pump"
    /\ cbpc = "idle"
    /\ delivery = "caller"
    /\ "No frame available" \in log
    /\ framesConsumed = 0
    /\ ~frameReceived /\ ~captureSuccess
    /\ file = "absent"

\* C28: TimeoutError is returned only if no handler execution of the
\* invocation obtained a frame from TryGetNextFrame before the call returned;
\* a call that returns TimeoutError has not started writing the output file.
C28_TimeoutMeansNoFrame ==
    [][(pc = "WaitCheck" /\ pc' # pc /\ result' = TimeoutError)
        => (framesConsumed = 0 /\ fileWrites = 0 /\ file = "absent")]_vars

\* C29: after InternalCapture has returned (normally, by timeout or through an
\* exception), no execution of the FrameArrived handler reads or writes
\* frameReceived, captureSuccess, frameMutex, frameCondition or the device of
\* that invocation, which the lambda captured by reference.
C29_NoHandlerAfterReturn ==
    [][("Initializing capture system" \in log
          /\ pc \in {"done", "DllReturn", "CsReturn", "WmainReturn", "WmainCatch"}
          /\ cbpc \in {"Materialize", "Save", "SignalLock", "SignalSet", "Notify"})
        => cbpc' = cbpc]_vars

C33_SameLifecycleAsDemo ==
    (InternalCaptureReturned /\ result \in {Success, FileSaveFailed, TimeoutError}
       /\ "Waiting for frame" \in log)
        => LET demo == AfterLifecycle(CaptureScreenAsyncCleanup(result # TimeoutError))
           IN  /\ session = demo.session
               /\ framePool = demo.framePool

====
